---- MODULE Spec2Model ----
(***************************************************************************)
(* Profile HMM inference (src/src/stats/profilehmm.rs): forward_algorithm, *)
(* backward and viterbi over log-probabilities.                            *)
(*                                                                         *)
(* A LogProb value ln(p) is represented by the probability p itself, as an *)
(* exact reduced fraction [n, d]: ln-zero is 0/1, ln-one is 1/1, `+` on    *)
(* LogProb multiplies the fractions, ln_add_exp adds them and the order is *)
(* the order of the fractions.  Indices are 0-based, as in the source.     *)
(***************************************************************************)
EXTENDS Integers, Sequences, FiniteSets, TLC

\* ---- bounds of the explored inputs ----
MaxStates == 2
MaxLen == 3
NumSymbols == 2
MaxWeight == 2
MaxSeed == 199

VARIABLES hmm, observations,
          fwd_status, forward_table, fwd_sequence_prob,
          bwd_status, backward_table,
          vit_status, path_finder, previous_state, result_states, vit_sequence_prob

vars == <<hmm, observations, fwd_status, forward_table, fwd_sequence_prob,
          bwd_status, backward_table,
          vit_status, path_finder, previous_state, result_states, vit_sequence_prob>>

\* ---- LogProb (stats::LogProb), in probability space ----
RECURSIVE GCD(_, _)
GCD(a, b) == IF b = 0 THEN a ELSE GCD(b, a % b)

Frac(n, d) == IF n = 0 THEN [n |-> 0, d |-> 1]
              ELSE LET g == GCD(n, d) IN [n |-> n \div g, d |-> d \div g]

ln_zero == [n |-> 0, d |-> 1]

ln_one == [n |-> 1, d |-> 1]

\* a + b on LogProb: the product of the probabilities
LpAdd(a, b) == Frac(a.n * b.n, a.d * b.d)

\* a.ln_add_exp(b): the sum of the probabilities
ln_add_exp(a, b) ==
    LET g == GCD(a.d, b.d)
    IN  Frac(a.n * (b.d \div g) + b.n * (a.d \div g), (a.d \div g) * b.d)

\* a > b and a >= b on LogProb
LpGt(a, b) == a.n * b.d > b.n * a.d

LpGe(a, b) == a.n * b.d >= b.n * a.d

\* ---- the model's fields ----
state_count(m) == m.state_count

States(m) == 0 .. (state_count(m) - 1)

Times(obs) == 0 .. (Len(obs) - 1)

\* observations[i], 0-based
Obs(obs, i) == obs[i + 1]

\* ---- forward_algorithm ----
\* the loop over prev_state, lines 40-42, from prev_state upward
RECURSIVE FwdAccumulate(_, _, _, _, _)
FwdAccumulate(m, prevRow, state, prev_state, acc) ==
    IF prev_state >= state_count(m) THEN acc
    ELSE FwdAccumulate(m, prevRow, state, prev_state + 1,
             ln_add_exp(acc, LpAdd(prevRow[prev_state],
                                   m.state_transitions[prev_state][state])))

FwdCellMutAddExp(m, obs, prevRow, time, state) ==
    LET before == IF time = 0 THEN m.initial_states_prob[state]
                  ELSE FwdAccumulate(m, prevRow, state, 0, ln_zero)
    IN  ln_add_exp(before, m.emission_matrix[state][Obs(obs, time)])

FwdCellMutNoEmission(m, obs, prevRow, time, state) ==
    IF time = 0 THEN LpAdd(m.initial_states_prob[state],
                           m.emission_matrix[state][Obs(obs, time)])
    ELSE FwdAccumulate(m, prevRow, state, 0, ln_zero)

\* the body of the loop over state, lines 37-44
FwdCell(m, obs, prevRow, time, state) ==
    LET before == IF time = 0 THEN m.initial_states_prob[state]
                  ELSE FwdAccumulate(m, prevRow, state, 0, ln_zero)
    IN  LpAdd(before, m.emission_matrix[state][Obs(obs, time)])

\* the loop over state, lines 36-45, from state upward: row is
\* forward_table[time] as filled so far
RECURSIVE FwdStates(_, _, _, _, _, _)
FwdStates(m, obs, prevRow, time, state, row) ==
    IF state >= state_count(m) THEN row
    ELSE FwdStates(m, obs, prevRow, time, state + 1,
                   row @@ (state :> FwdCell(m, obs, prevRow, time, state)))

\* the loop over time, lines 35-46, from time upward: table holds the rows
\* filled so far, prevRow is forward_table[time - 1]
RECURSIVE FwdTimes(_, _, _, _, _)
FwdTimes(m, obs, time, prevRow, table) ==
    IF time >= Len(obs) THEN table
    ELSE LET row == FwdStates(m, obs, prevRow, time, 0, << >>)
         IN  FwdTimes(m, obs, time + 1, row, table @@ (time :> row))

ForwardTable(m, obs) == FwdTimes(m, obs, 0, << >>, << >>)

\* the aggregation loop, lines 47-50: forward_table[state][state_count - 1] is
\* read with the state as the row index; an index past the last row panics and
\* leaves the partial sum in *sequence_prob
RECURSIVE FwdAggregate(_, _, _, _, _)
FwdAggregate(m, obs, table, state, acc) ==
    IF state >= state_count(m) THEN [panic |-> FALSE, prob |-> acc]
    ELSE IF state >= Len(obs) THEN [panic |-> TRUE, prob |-> acc]
    ELSE FwdAggregate(m, obs, table, state + 1,
             ln_add_exp(acc, LpAdd(table[state][state_count(m) - 1],
                                   m.state_transitions[state][state_count(m)])))

NoTable == << >>

ForwardAlgorithm ==
    LET table == ForwardTable(hmm, observations)
        agg == FwdAggregate(hmm, observations, table, 0, ln_zero)
    IN  /\ fwd_status' = IF agg.panic THEN "panic" ELSE "ok"
        /\ forward_table' = IF agg.panic THEN NoTable ELSE table
        /\ fwd_sequence_prob' = agg.prob
        /\ UNCHANGED <<hmm, observations, bwd_status, backward_table, vit_status,
                       path_finder, previous_state, result_states, vit_sequence_prob>>

\* ---- backward ----
\* the loop over next_state, lines 63-65, from next_state upward
RECURSIVE BwdAccumulate(_, _, _, _, _, _, _)
BwdAccumulate(m, obs, nextRow, time, state, next_state, acc) ==
    IF next_state >= state_count(m) THEN acc
    ELSE BwdAccumulate(m, obs, nextRow, time, state, next_state + 1,
             ln_add_exp(acc,
                 LpAdd(LpAdd(nextRow[next_state],
                             m.state_transitions[state][next_state]),
                       m.emission_matrix[next_state][Obs(obs, time + 1)])))

BwdCellMutEmitNow(m, obs, nextRow, time, state) ==
    IF time + 1 = Len(obs) THEN ln_one
    ELSE BwdAccumulate(m, obs, nextRow, time - 1, state, 0, ln_zero)

BwdCellMutBaseZero(m, obs, nextRow, time, state) ==
    IF time + 1 = Len(obs) THEN ln_zero
    ELSE BwdAccumulate(m, obs, nextRow, time, state, 0, ln_zero)

\* the body of the loop over state, lines 60-66
BwdCell(m, obs, nextRow, time, state) ==
    IF time + 1 = Len(obs) THEN ln_one
    ELSE BwdAccumulate(m, obs, nextRow, time, state, 0, ln_zero)

\* the loop over state, lines 59-67, from state upward: row is
\* backward_table[time] as filled so far
RECURSIVE BwdStates(_, _, _, _, _, _)
BwdStates(m, obs, nextRow, time, state, row) ==
    IF state >= state_count(m) THEN row
    ELSE BwdStates(m, obs, nextRow, time, state + 1,
                   row @@ (state :> BwdCell(m, obs, nextRow, time, state)))

\* the loop over time, lines 58-68, from time downward: table holds the rows
\* filled so far, nextRow is backward_table[time + 1]
RECURSIVE BwdTimes(_, _, _, _, _)
BwdTimes(m, obs, time, nextRow, table) ==
    IF time < 0 THEN table
    ELSE LET row == BwdStates(m, obs, nextRow, time, 0, << >>)
         IN  BwdTimes(m, obs, time - 1, row, table @@ (time :> row))

BackwardTable(m, obs) == BwdTimes(m, obs, Len(obs) - 1, << >>, << >>)

Backward ==
    /\ bwd_status' = "ok"
    /\ backward_table' = BackwardTable(hmm, observations)
    /\ UNCHANGED <<hmm, observations, fwd_status, forward_table, fwd_sequence_prob,
                   vit_status, path_finder, previous_state, result_states,
                   vit_sequence_prob>>

\* ---- viterbi ----
\* the first column of path_finder, lines 84-88
VitFirstColumn(m, obs) ==
    [i \in States(m) |-> LpAdd(m.initial_states_prob[i],
                               m.emission_matrix[i][Obs(obs, 0)])]

\* the loop over k, lines 99-106, from k upward: best is path_segment[j] and
\* prev is previous_state[i][j]
RECURSIVE VitScanMutGe(_, _, _, _, _)
VitScanMutGe(m, prevCol, j, k, acc) ==
    IF k >= state_count(m) THEN acc
    ELSE LET tmp == LpAdd(prevCol[k], m.state_transitions[k][j])
         IN  VitScanMutGe(m, prevCol, j, k + 1,
                 IF LpGe(tmp, acc.best) THEN [best |-> tmp, prev |-> k] ELSE acc)

RECURSIVE VitScan(_, _, _, _, _)
VitScan(m, prevCol, j, k, acc) ==
    IF k >= state_count(m) THEN acc
    ELSE LET tmp == LpAdd(prevCol[k], m.state_transitions[k][j])
         IN  VitScan(m, prevCol, j, k + 1,
                 IF LpGt(tmp, acc.best) THEN [best |-> tmp, prev |-> k] ELSE acc)

VitCellMutSkipFirst(m, obs, prevCol, i, j) ==
    LET won == VitScan(m, prevCol, j, 1, [best |-> ln_zero, prev |-> 0])
    IN  [score |-> LpAdd(won.best, m.emission_matrix[j][Obs(obs, i)]),
         prev |-> won.prev]

\* the body of the loop over j, lines 97-107
VitCell(m, obs, prevCol, i, j) ==
    LET won == VitScan(m, prevCol, j, 0, [best |-> ln_zero, prev |-> 0])
    IN  [score |-> LpAdd(won.best, m.emission_matrix[j][Obs(obs, i)]),
         prev |-> won.prev]

\* the loop over j, lines 96-108, from j upward: col is path_segment and
\* previous_state[i] as filled so far
RECURSIVE VitStates(_, _, _, _, _, _)
VitStates(m, obs, prevCol, i, j, col) ==
    IF j >= state_count(m) THEN col
    ELSE LET cell == VitCell(m, obs, prevCol, i, j)
         IN  VitStates(m, obs, prevCol, i, j + 1,
                       [score |-> col.score @@ (j :> cell.score),
                        prev |-> col.prev @@ (j :> cell.prev)])

\* the loop over i, lines 92-110, from i upward: tables holds path_finder and
\* previous_state as filled so far
RECURSIVE VitColumns(_, _, _, _)
VitColumns(m, obs, i, tables) ==
    IF i >= Len(obs) THEN tables
    ELSE LET col == VitStates(m, obs, tables.path_finder[i - 1], i, 0,
                              [score |-> << >>, prev |-> << >>])
         IN  VitColumns(m, obs, i + 1,
                        [path_finder |-> tables.path_finder @@ (i :> col.score),
                         previous_state |-> tables.previous_state @@ (i :> col.prev)])

\* path_finder and previous_state when the loops of lines 83-110 are done
VitTables(m, obs) ==
    VitColumns(m, obs, 1, [path_finder |-> (0 :> VitFirstColumn(m, obs)),
                           previous_state |-> (0 :> << >>)])

\* the termination loop, lines 112-118, from state i upward
RECURSIVE VitTerminate(_, _, _, _)
VitTerminate(m, lastCol, i, acc) ==
    IF i >= state_count(m) THEN acc
    ELSE VitTerminate(m, lastCol, i + 1,
             IF LpGe(lastCol[i], acc.prob)
             THEN [state |-> i, prob |-> lastCol[i]] ELSE acc)

\* the traceback loop, lines 119-121, from index i downward
RECURSIVE VitTracebackMutSameColumn(_, _, _)
VitTracebackMutSameColumn(prev, states, i) ==
    IF i < 0 THEN states
    ELSE VitTracebackMutSameColumn(prev,
             [states EXCEPT ![i] = IF i = 0 THEN 0 ELSE prev[i][states[i + 1]]], i - 1)

RECURSIVE VitTraceback(_, _, _)
VitTraceback(prev, states, i) ==
    IF i < 0 THEN states
    ELSE VitTraceback(prev, [states EXCEPT ![i] = prev[i + 1][states[i + 1]]], i - 1)

\* vec![0; observations.len()], line 111
VitResultInit(obs) == [i \in Times(obs) |-> 0]

VitPathMutDropsFirst(obs, prev, final_state) ==
    LET last == Len(obs) - 1
        full == VitTraceback(prev, [VitResultInit(obs) EXCEPT ![last] = final_state],
                             last - 1)
    IN  [i \in 0 .. (last - 1) |-> full[i + 1]]

\* result_states as returned, lines 111-122, given the state the termination
\* loop chose
VitPath(obs, prev, final_state) ==
    LET last == Len(obs) - 1
    IN  VitTraceback(prev, [VitResultInit(obs) EXCEPT ![last] = final_state], last - 1)

Viterbi ==
    LET last == Len(observations) - 1
        tables == VitTables(hmm, observations)
        final == VitTerminate(hmm, tables.path_finder[last], 0,
                              [state |-> 0, prob |-> ln_zero])
    IN  /\ vit_status' = "ok"
        /\ path_finder' = tables.path_finder
        /\ previous_state' = tables.previous_state
        /\ vit_sequence_prob' = final.prob
        /\ result_states' = VitPath(observations, tables.previous_state, final.state)
        /\ UNCHANGED <<hmm, observations, fwd_status, forward_table, fwd_sequence_prob,
                       bwd_status, backward_table>>

\* ---- the inputs: models and observation sequences ----
Mix(x) == (x * 1103 + 12345) % 65537

\* entry idx of the tables of the model numbered seed, a weight in 0..MaxWeight
Hash(seed, idx) == Mix(Mix(seed * 131 + idx * 17 + 1) + idx) \div 7

Weight(seed, idx) == Hash(seed, idx) % (MaxWeight + 1)

Prob(w) == Frac(w, MaxWeight)

\* any tables: every entry is a probability k/MaxWeight
AnyModel(n, seed) ==
    [observation_count |-> NumSymbols,
     state_count |-> n,
     initial_states_prob |-> [s \in 0 .. (n - 1) |-> Prob(Weight(seed, s))],
     state_transitions |->
         [k \in 0 .. (n - 1) |->
             [j \in 0 .. n |-> Prob(Weight(seed, n + k * (n + 1) + j))]],
     emission_matrix |->
         [s \in 0 .. (n - 1) |->
             [o \in 0 .. (NumSymbols - 1) |->
                 Prob(Weight(seed, n + n * (n + 1) + s * NumSymbols + o))]]]

\* a row of len weights that sum to MaxWeight: entry i takes a share of what the
\* entries before it left, the last entry takes the rest
RECURSIVE RowLeft(_, _, _)
RowLeft(seed, base, i) ==
    IF i = 0 THEN MaxWeight
    ELSE LET left == RowLeft(seed, base, i - 1)
         IN  left - (Hash(seed, base + i - 1) % (left + 1))

RowWeight(seed, base, len, i) ==
    IF i = len - 1 THEN RowLeft(seed, base, i)
    ELSE RowLeft(seed, base, i) - RowLeft(seed, base, i + 1)

\* row-normalized tables: initial_states_prob, every row of state_transitions
\* (end column included) and every row of emission_matrix sum to 1
NormalizedModel(n, seed) ==
    [observation_count |-> NumSymbols,
     state_count |-> n,
     initial_states_prob |-> [s \in 0 .. (n - 1) |-> Prob(RowWeight(seed, 0, n, s))],
     state_transitions |->
         [k \in 0 .. (n - 1) |->
             [j \in 0 .. n |-> Prob(RowWeight(seed, n + k * (n + 1), n + 1, j))]],
     emission_matrix |->
         [s \in 0 .. (n - 1) |->
             [o \in 0 .. (NumSymbols - 1) |->
                 Prob(RowWeight(seed, n + n * (n + 1) + s * NumSymbols, NumSymbols, o))]]]

\* the observation sequence numbered seed of length len: in-range symbols
ObservationSeq(len, seed) ==
    [i \in 1 .. len |-> Hash(seed, 1000 + i) % NumSymbols]

InitOutputs ==
    /\ fwd_status = "idle" /\ forward_table = NoTable /\ fwd_sequence_prob = ln_zero
    /\ bwd_status = "idle" /\ backward_table = NoTable
    /\ vit_status = "idle" /\ path_finder = NoTable /\ previous_state = NoTable
    /\ result_states = << >> /\ vit_sequence_prob = ln_zero

\* a populated model with any tables and a non-empty observation sequence
Init ==
    /\ \E n \in 1 .. MaxStates, len \in 1 .. MaxLen, seed \in 0 .. MaxSeed :
           /\ hmm = AnyModel(n, seed)
           /\ observations = ObservationSeq(len, seed)
    /\ InitOutputs

\* a populated model with row-normalized tables and a non-empty observation
\* sequence
InitNormalized ==
    /\ \E n \in 1 .. MaxStates, len \in 1 .. MaxLen, seed \in 0 .. MaxSeed :
           /\ hmm = NormalizedModel(n, seed)
           /\ observations = ObservationSeq(len, seed)
    /\ InitOutputs

Next == ForwardAlgorithm \/ Backward \/ Viterbi

Spec == Init /\ [][Next]_vars

SpecNormalized == InitNormalized /\ [][Next]_vars

\* ---- reference quantities the properties compare the results with ----
Last == Len(observations) - 1

\* all state sequences for the times lo..hi
Paths(lo, hi) == [lo .. hi -> States(hmm)]

\* the log-probability of the state sequence p over the times 0..i:
\* initial + emission at time 0, then transition + emission per later time
RECURSIVE PathLogProb(_, _)
PathLogProb(p, i) ==
    IF i = 0
    THEN LpAdd(hmm.initial_states_prob[p[0]],
               hmm.emission_matrix[p[0]][Obs(observations, 0)])
    ELSE LpAdd(LpAdd(PathLogProb(p, i - 1), hmm.state_transitions[p[i - 1]][p[i]]),
               hmm.emission_matrix[p[i]][Obs(observations, i)])

\* the log-probability of continuing from state s at time t through the states
\* q[t+1..i], emitting observations[t+1..i]
RECURSIVE SuffixLogProb(_, _, _, _)
SuffixLogProb(s, q, t, i) ==
    IF i = t THEN ln_one
    ELSE LpAdd(LpAdd(SuffixLogProb(s, q, t, i - 1),
                     hmm.state_transitions[IF i = t + 1 THEN s ELSE q[i - 1]][q[i]]),
               hmm.emission_matrix[q[i]][Obs(observations, i)])

\* the log-sum-exp of f[lo], ..., f[hi]
RECURSIVE LogSumExp(_, _, _)
LogSumExp(f, lo, hi) ==
    IF lo > hi THEN ln_zero
    ELSE IF lo = hi THEN f[lo]
    ELSE LET mid == (lo + hi) \div 2
         IN  ln_add_exp(LogSumExp(f, lo, mid), LogSumExp(f, mid + 1, hi))

\* the log-sum-exp of f[s] over the states s
SumOverStates(f) == LogSumExp(f, 0, state_count(hmm) - 1)

RECURSIVE Pow(_, _)
Pow(b, e) == IF e = 0 THEN 1 ELSE b * Pow(b, e - 1)

\* the state sequences for the times lo..hi, numbered 0 .. PathCount(lo, hi) - 1
PathCount(lo, hi) == Pow(state_count(hmm), hi - lo + 1)

PathOf(idx, lo, hi) ==
    [i \in lo .. hi |-> (idx \div Pow(state_count(hmm), i - lo)) % state_count(hmm)]

\* the greatest of f[x] over the x in the finite non-empty set S
LpMax(f, S) == LET x == CHOOSE y \in S : \A z \in S : LpGe(f[y], f[z]) IN f[x]

SetMin(S) == CHOOSE x \in S : \A y \in S : x <= y

SetMax(S) == CHOOSE x \in S : \A y \in S : x >= y

\* the candidates the recurrence of viterbi scans for column i and state j
Candidates(i, j) ==
    [k \in States(hmm) |-> LpAdd(path_finder[i - 1][k], hmm.state_transitions[k][j])]

\* C1: the log-probability viterbi writes to sequence_prob is the log-probability
\* of the path it returns, computed directly from the initial, transition and
\* emission terms along that path.
C1_ViterbiProbIsPathProb ==
    vit_status = "ok" => vit_sequence_prob = PathLogProb(result_states, Last)

C1_Witness ==
    /\ vit_status = "ok" /\ Len(observations) >= 2 /\ state_count(hmm) >= 2
    /\ vit_sequence_prob # ln_zero
    /\ \E i \in 1 .. Last : result_states[i] # result_states[i - 1]

\* C2: no state sequence of the same length has a log-probability strictly
\* greater than the value viterbi writes to sequence_prob.
C2_ViterbiIsMostLikely ==
    vit_status = "ok" =>
        \A p \in Paths(0, Last) : ~LpGt(PathLogProb(p, Last), vit_sequence_prob)

C2_Witness ==
    /\ vit_status = "ok" /\ Len(observations) >= 2 /\ state_count(hmm) >= 2
    /\ \E p \in Paths(0, Last) :
           /\ PathLogProb(p, Last) # ln_zero
           /\ LpGt(vit_sequence_prob, PathLogProb(p, Last))

\* C3: forward_algorithm completes without an out-of-bounds access and returns a
\* table of len(observations) rows by state_count columns, whatever the relation
\* between len(observations) and state_count.
C3_ForwardIsTotal ==
    fwd_status # "idle" =>
        /\ fwd_status = "ok"
        /\ DOMAIN forward_table = Times(observations)
        /\ \A t \in Times(observations) : DOMAIN forward_table[t] = States(hmm)

\* C4: forward_algorithm sets sequence_prob to the log-sum over the states s of
\* forward[len(observations)-1][s] + state_transitions[s][state_count].
C4_ForwardTotalProb ==
    fwd_status = "ok" =>
        fwd_sequence_prob =
            SumOverStates([s \in States(hmm) |->
                              LpAdd(forward_table[Last][s],
                                    hmm.state_transitions[s][state_count(hmm)])])

\* C5: every entry forward[t][s] of the returned table is the log-sum over all
\* state paths of length t+1 that end in s of the path's log-probability, and
\* satisfies the forward recurrence.
C5_ForwardEntries ==
    fwd_status = "ok" =>
        \A t \in Times(observations) : \A s \in States(hmm) :
            /\ forward_table[t][s] =
                   LogSumExp([idx \in 0 .. (PathCount(0, t - 1) - 1) |->
                                 PathLogProb(PathOf(idx, 0, t - 1) @@ (t :> s), t)],
                             0, PathCount(0, t - 1) - 1)
            /\ forward_table[t][s] =
                   IF t = 0
                   THEN LpAdd(hmm.initial_states_prob[s],
                              hmm.emission_matrix[s][Obs(observations, 0)])
                   ELSE LpAdd(hmm.emission_matrix[s][Obs(observations, t)],
                              SumOverStates([k \in States(hmm) |->
                                                LpAdd(forward_table[t - 1][k],
                                                      hmm.state_transitions[k][s])]))

C5_Witness ==
    /\ fwd_status = "ok" /\ Len(observations) >= 3 /\ state_count(hmm) >= 2
    /\ \E s \in States(hmm) :
           Cardinality({p \in Paths(0, Last) :
                           p[Last] = s /\ PathLogProb(p, Last) # ln_zero}) >= 2

\* C6: backward[last][s] is ln-one for every state s, and for t < last
\* backward[t][s] is the log-sum over all state continuations from s at time t of
\* the log-probability of emitting observations[t+1..], and satisfies the
\* backward recurrence (no end column).
C6_BackwardEntries ==
    bwd_status = "ok" =>
        \A t \in Times(observations) : \A s \in States(hmm) :
            IF t = Last THEN backward_table[t][s] = ln_one
            ELSE /\ backward_table[t][s] =
                        LogSumExp([idx \in 0 .. (PathCount(t + 1, Last) - 1) |->
                                      SuffixLogProb(s, PathOf(idx, t + 1, Last), t, Last)],
                                  0, PathCount(t + 1, Last) - 1)
                 /\ backward_table[t][s] =
                        SumOverStates([n \in States(hmm) |->
                            LpAdd(LpAdd(backward_table[t + 1][n],
                                        hmm.state_transitions[s][n]),
                                  hmm.emission_matrix[n][Obs(observations, t + 1)])])

C6_Witness ==
    /\ bwd_status = "ok" /\ Len(observations) >= 3 /\ state_count(hmm) >= 2
    /\ \E s \in States(hmm) :
           Cardinality({q \in Paths(1, Last) :
                           SuffixLogProb(s, q, 0, Last) # ln_zero}) >= 2

\* the sum of the row f, in probability space, is 1
RowSumsToOne(f) == LogSumExp(f, 0, Cardinality(DOMAIN f) - 1) = ln_one

IsNormalized(m) ==
    /\ RowSumsToOne(m.initial_states_prob)
    /\ \A s \in States(m) : /\ RowSumsToOne(m.state_transitions[s])
                            /\ RowSumsToOne(m.emission_matrix[s])

\* C7: for a row-normalized model every entry of the tables returned by
\* forward_algorithm and backward is a valid log-probability, at most ln-one.
C7_EntriesAtMostLnOne ==
    IsNormalized(hmm) =>
        /\ fwd_status = "ok" =>
               \A t \in Times(observations) : \A s \in States(hmm) :
                   LpGe(ln_one, forward_table[t][s])
        /\ bwd_status = "ok" =>
               \A t \in Times(observations) : \A s \in States(hmm) :
                   LpGe(ln_one, backward_table[t][s])

C7_Witness ==
    /\ IsNormalized(hmm) /\ fwd_status = "ok" /\ bwd_status = "ok"
    /\ Len(observations) >= 2 /\ state_count(hmm) >= 2
    /\ \E s \in States(hmm) : forward_table[Last][s] # ln_zero
    /\ \E s \in States(hmm) : backward_table[0][s] \notin {ln_zero, ln_one}

\* C8: the path returned by viterbi has exactly len(observations) elements.
C8_ViterbiPathLength ==
    vit_status = "ok" =>
        /\ DOMAIN result_states = Times(observations)
        /\ Cardinality(DOMAIN result_states) = Len(observations)

C8_Witness == vit_status = "ok" /\ Len(observations) >= 2

\* C9: the back-pointer prev[i][j] is the lowest-index maximizer of
\* score[i-1][k] + state_transitions[k][j], and 0 when every candidate is ln-zero;
\* the final state is the highest-index maximizer of score[last][s].
C9_ViterbiTieBreaking ==
    vit_status = "ok" =>
        /\ \A i \in 1 .. Last : \A j \in States(hmm) :
               LET best == LpMax(Candidates(i, j), States(hmm))
               IN  previous_state[i][j] =
                       IF best = ln_zero THEN 0
                       ELSE SetMin({k \in States(hmm) : Candidates(i, j)[k] = best})
        /\ result_states[Last] =
               SetMax({s \in States(hmm) :
                          path_finder[Last][s] = LpMax(path_finder[Last], States(hmm))})

C9_Witness ==
    /\ vit_status = "ok" /\ Len(observations) >= 2
    /\ \E j \in States(hmm) :
           LET best == LpMax(Candidates(Last, j), States(hmm))
           IN  /\ best # ln_zero
               /\ Cardinality({k \in States(hmm) : Candidates(Last, j)[k] = best}) >= 2
    /\ LpMax(path_finder[Last], States(hmm)) # ln_zero
    /\ Cardinality({s \in States(hmm) :
                       path_finder[Last][s] = LpMax(path_finder[Last], States(hmm))}) >= 2

\* C10: the log-sum over s of forward[t][s] + backward[t][s] is the same for
\* every time t, and equals the log-sum over s of forward[last][s].
C10_ForwardBackwardConsistent ==
    (fwd_status = "ok" /\ bwd_status = "ok") =>
        \A t \in Times(observations) :
            SumOverStates([s \in States(hmm) |->
                              LpAdd(forward_table[t][s], backward_table[t][s])])
            = SumOverStates(forward_table[Last])

C10_Witness ==
    /\ fwd_status = "ok" /\ bwd_status = "ok"
    /\ Len(observations) >= 3 /\ state_count(hmm) >= 2
    /\ SumOverStates(forward_table[Last]) # ln_zero
    /\ \E s \in States(hmm) : backward_table[0][s] \notin {ln_zero, ln_one}

====
